---- MODULE Spec2Model ----
(***************************************************************************)
(* topology-runner: the DAG execution engine of src/src/topology.ts.       *)
(*                                                                         *)
(* One run handle (runTopology / resumeTopology) is modelled at the        *)
(* granularity of JavaScript jobs: every synchronous stretch of the        *)
(* engine (a call of start() up to its await, the continuation of the      *)
(* scheduler loop, a .then / .catch / .finally reaction of a node's        *)
(* promise chain, a call of updateState by a running action) is one atomic *)
(* action.  Node actions are user code: when they settle and with which    *)
(* result is chosen nondeterministically.                                  *)
(*                                                                         *)
(* An optional value (a field that may be absent, a parameter that may be  *)
(* undefined) is << >> when absent and << v >> when it is v.               *)
(***************************************************************************)
EXTENDS Integers, Sequences, FiniteSets, TLC

VARIABLES
    dag,        \* the DAG of the run: node -> [deps, type]
    spec,       \* the spec's callbacks: node -> [run: whether a run fn exists, ...]
    snapshot,   \* the live snapshot: [status, finished, data: node -> NodeData]
    promises,   \* the in-flight registry `promises` (set of its keys)
    chain,      \* node -> position of the node's promise chain
    aborted,    \* abortController.signal.aborted
    loops,      \* the calls of start() on this handle, in call order
    handle,     \* "run" (handle of _runTopology), "noop" (completed
                \* short-circuit) or "none" (no factory call made yet)
    emitted,    \* terminal events emitted on this handle's emitter: [done, error, last]
    dispatched, \* history: nodes whose action this handle has invoked
    resumed,    \* whether the handle was returned by resumeTopology
    given,      \* the snapshot object the handle was resumed from, as the
                \* call left it (NoSnapshot: none)
    thrown,     \* what the caller's last call threw, if it was one of
                \* resumeTopology that threw (<< >>: nothing)
    listening,  \* whether the caller attached a listener for `data`
    heard,      \* what that listener received during the last job: the
                \* snapshot as each `data` emission carried it, in order
    passed,     \* history: node -> the value last passed to its updateState
    received    \* history: node -> what its run fn was called with on this
                \* handle, its `data` and `state` (<< >>: it was not called)

vars == << dag, spec, snapshot, promises, chain, aborted, loops, handle,
           emitted, dispatched, resumed, given, thrown, listening, heard,
           passed, received >>

----------------------------------------------------------------------------
(* Bounds *)

\* calls of start() on one run handle
MaxStarts == 2

----------------------------------------------------------------------------
(* Topologies the runs are drawn from *)

\* Key order of the spec object (for..in order)
Keys == << "a", "b", "c", "d" >>

Range(s) == { s[i] : i \in DOMAIN s }

\* A NodeDef: deps, type, whether it has a run fn; its run fn returns a
\* value and never calls updateState
Node(deps, type, run) ==
    [deps |-> deps, type |-> type, run |-> run, updates |-> FALSE, returns |-> TRUE]

\* A work NodeDef whose run fn calls updateState while it runs and returns
\* undefined
StatefulNode(deps) ==
    [deps |-> deps, type |-> "work", run |-> TRUE, updates |-> TRUE, returns |-> FALSE]

\* api -> {details, attachments} -> writeToDB
DiamondSpec ==
    [ a |-> Node(<< >>, "work", TRUE),
      b |-> Node(<< "a" >>, "work", TRUE),
      c |-> Node(<< "a" >>, "work", TRUE),
      d |-> Node(<< "c", "b" >>, "work", TRUE) ]

\* branching a -> {b, c}, c -> d
BranchingSpec ==
    [ a |-> Node(<< >>, "branching", TRUE),
      b |-> Node(<< "a" >>, "work", TRUE),
      c |-> Node(<< "a" >>, "work", TRUE),
      d |-> Node(<< "c" >>, "work", TRUE) ]

\* work a -> suspension b (no run fn) -> c -> d
SuspensionSpec ==
    [ a |-> Node(<< >>, "work", TRUE),
      b |-> Node(<< "a" >>, "suspension", FALSE),
      c |-> Node(<< "b" >>, "work", TRUE),
      d |-> Node(<< "c" >>, "work", TRUE) ]

\* branching a and suspension b side by side; c depends on both, d on a
MixedSpec ==
    [ a |-> Node(<< >>, "branching", TRUE),
      b |-> Node(<< >>, "suspension", TRUE),
      c |-> Node(<< "a", "b" >>, "work", TRUE),
      d |-> Node(<< "a" >>, "work", TRUE) ]

\* api -> next, both reporting progress with updateState
StatefulSpec ==
    [ a |-> StatefulNode(<< >>),
      b |-> StatefulNode(<< "a" >>) ]

Specs == { DiamondSpec, BranchingSpec, SuspensionSpec, MixedSpec, StatefulSpec }

\* the values a run fn passes to updateState
States == { "s1", "s2" }

\* Options of runTopology: data, includeNodes, excludeNodes (each optional)
NoOptions == [data |-> << >>, includeNodes |-> << >>, excludeNodes |-> << >>]

\* the calls of runTopology whose runs are followed: each topology without
\* options, the stateful one with initial data
Calls ==
    { [spec |-> s, options |-> NoOptions] : s \in Specs \ {StatefulSpec} }
    \cup { [spec |-> StatefulSpec, options |-> [NoOptions EXCEPT !.data = << "data" >>]] }

\* a set of nodes as the list the code iterates (object key order)
InKeyOrder(S) == SelectSeq(Keys, LAMBDA k : k \in S)

----------------------------------------------------------------------------
(* Pure helpers of topology.ts and util.ts *)

\* util.ts findKeys({status: st}, data)
findKeys(st, data) == { k \in DOMAIN data : data[k].status = st }

\* extractDag: project each NodeDef to {deps, type}
extractDag(obj) == [ n \in DOMAIN obj |-> [deps |-> obj[n].deps, type |-> obj[n].type] ]

\* removeExcludeNodes(excludeNodes)(dag): _.omit, then _.pullAll on each deps
removeExcludeNodes(excludeNodes, g) ==
    [ n \in DOMAIN g \ Range(excludeNodes) |->
        [g[n] EXCEPT !.deps = SelectSeq(@, LAMBDA d : d \notin Range(excludeNodes))] ]

\* _.intersection(array, values): the values of array, in its order and
\* without repetition, that are among values
RECURSIVE intersection(_, _)
intersection(array, values) ==
    IF array = << >> THEN << >>
    ELSE LET rest == intersection(SubSeq(array, 1, Len(array) - 1), values)
             last == array[Len(array)]
         IN  IF last \in Range(values) /\ last \notin Range(rest)
             THEN Append(rest, last) ELSE rest

\* pickIncludeNodes(includeNodes)(dag): _.pick, then _.intersection with
\* each deps (lodash/fp: the deps are the first array).  _.pick lays the
\* keys out in the order of includeNodes; the DAG is modelled as a mapping,
\* the code's iterations over it go by Keys.
pickIncludeNodes(includeNodes, g) ==
    [ n \in DOMAIN g \cap Range(includeNodes) |->
        [g[n] EXCEPT !.deps = intersection(@, includeNodes)] ]

\* Variant: includeNodes is handled first
filterDAG_IncludeFirst(g, options) ==
    IF options.includeNodes # << >> THEN pickIncludeNodes(options.includeNodes[1], g)
    ELSE IF options.excludeNodes # << >> THEN removeExcludeNodes(options.excludeNodes[1], g)
    ELSE g

\* filterDAG(dag, options): an array, also an empty one, is truthy
filterDAG(g, options) ==
    IF options.excludeNodes # << >> THEN removeExcludeNodes(options.excludeNodes[1], g)
    ELSE IF options.includeNodes # << >> THEN pickIncludeNodes(options.includeNodes[1], g)
    ELSE g

\* getDependents(node, dag)
getDependents(node, g) == { key \in DOMAIN g : node \in Range(g[key].deps) }

\* Variant: any finished dependency (not only a completed one) unblocks a node
getNodesReadyToRun_AnyFinished(g, data) ==
    LET unfinished == findKeys("pending", data) \cup findKeys("running", data)
    IN  { node \in DOMAIN g :
            LET isPending == node \notin DOMAIN data \/ data[node].status = "pending"
            IN  Range(g[node].deps) \cap unfinished = {} /\ isPending }

\* Variant: once a node has errored no further node is ready
getNodesReadyToRun_NoneAfterError(g, data) ==
    LET completed == findKeys("completed", data)
    IN  { node \in DOMAIN g :
            LET isPending == node \notin DOMAIN data \/ data[node].status = "pending"
            IN  /\ Range(g[node].deps) \ completed = {} /\ isPending
                /\ findKeys("errored", data) = {} }

\* getNodesReadyToRun(dag, data)
getNodesReadyToRun(g, data) ==
    LET completed == findKeys("completed", data)
    IN  { node \in DOMAIN g :
            LET isPending == node \notin DOMAIN data \/ data[node].status = "pending"
            IN  Range(g[node].deps) \ completed = {} /\ isPending }

\* `undefined` as an element of an input array
undefined == "undefined"

\* Variant: the outputs are collected in key order of the DAG
RECURSIVE inputFromDeps_InKeyOrder(_, _, _)
inputFromDeps_InKeyOrder(g, deps, data) ==
    IF deps = << >> THEN << >>
    ELSE LET sorted == InKeyOrder(Range(deps))
             dep == Head(sorted)
             rest == inputFromDeps_InKeyOrder(g, Tail(sorted), data)
         IN  IF g[dep].type = "work"
             THEN << IF data[dep].output # << >> THEN data[dep].output[1] ELSE undefined >>
                  \o rest
             ELSE IF data[dep].input # << >> THEN data[dep].input[1] \o rest
             ELSE rest

\* the `for (const dep of deps)` loop of getInputData: the output of a work
\* dep (undefined when it has none), the elements of the input of another
\* dep when it has one
RECURSIVE inputFromDeps(_, _, _)
inputFromDeps(g, deps, data) ==
    IF deps = << >> THEN << >>
    ELSE LET dep == Head(deps)
             rest == inputFromDeps(g, Tail(deps), data)
         IN  IF g[dep].type = "work"
             THEN << IF data[dep].output # << >> THEN data[dep].output[1] ELSE undefined >>
                  \o rest
             ELSE IF data[dep].input # << >> THEN data[dep].input[1] \o rest
             ELSE rest

\* getInputData(dag, node, data): the input recorded in the snapshot if
\* there is one (an array is truthy), else the input from the deps
getInputData(g, node, data) ==
    IF data[node].input # << >> THEN data[node].input[1]
    ELSE inputFromDeps(g, g[node].deps, data)

\* getNodesWithNoDeps(dag)
getNodesWithNoDeps(g) == { n \in DOMAIN g : g[n].deps = << >> }

\* Variant: the initial data is given to every node
initSnapshotData_DataToAll(g, data) ==
    [ node \in DOMAIN g |->
        [deps |-> g[node].deps, type |-> g[node].type, status |-> "pending",
         input |-> IF data # << >> THEN << << data[1] >> >> ELSE << >>,
         state |-> << >>, output |-> << >>, error |-> << >>,
         started |-> FALSE, finished |-> FALSE, selected |-> "", reason |-> ""] ]

\* initSnapshotData(dag, data): one pending entry per node, with input
\* [data] for the nodes without deps when data is not undefined.  An entry
\* is the NodeData object with its optional fields made explicit: input
\* (an array), state and output are optional values, started and finished
\* record whether the timestamp is set, error is << >> when unset, selected
\* and reason are "" when unset.
initSnapshotData(g, data) ==
    [ node \in DOMAIN g |->
        [deps |-> g[node].deps, type |-> g[node].type, status |-> "pending",
         input |-> IF data # << >> /\ node \in getNodesWithNoDeps(g)
                   THEN << << data[1] >> >> ELSE << >>,
         state |-> << >>, output |-> << >>, error |-> << >>,
         started |-> FALSE, finished |-> FALSE, selected |-> "", reason |-> ""] ]

----------------------------------------------------------------------------
(* nodeEventHandler(snapshot, emitter): each handler updates the snapshot  *)
(* and emits `data` with it.  A handler is applied to, and returns, the    *)
(* pair [snapshot, heard] of the live snapshot and what the `data`         *)
(* listener has received so far in the running job.                        *)

\* the snapshot and the listener at the beginning of a job
Job(snap) == [snapshot |-> snap, heard |-> << >>]

\* Variant: `data` is emitted with a stale copy, lacking the node entries
emit_Stale(s) ==
    IF listening
    THEN [s EXCEPT !.heard = Append(@, [s.snapshot EXCEPT !.data = snapshot.data])]
    ELSE s

\* emitter.emit('data', snapshot): a listener, if any, receives the live
\* snapshot as it is now
emit(s) ==
    IF listening THEN [s EXCEPT !.heard = Append(@, s.snapshot)] ELSE s

updateState(s, node, state) ==
    emit([s EXCEPT !.snapshot.data[node].state = << state >>])

\* Variant: the status is left as it is
running_LeavesStatus(s, node, data) ==
    emit([s EXCEPT !.snapshot.data[node].started = TRUE,
                   !.snapshot.data[node].input = << data >>])

\* data: the input array
running(s, node, data) ==
    emit([s EXCEPT !.snapshot.data[node].started = TRUE,
                   !.snapshot.data[node].input = << data >>,
                   !.snapshot.data[node].status = "running"])

\* Variant: completing a node clears its state
completed_ClearsState(s, node, output) ==
    emit([s EXCEPT !.snapshot.data[node].output = (IF output # << >> THEN output ELSE @),
                   !.snapshot.data[node].state = << >>,
                   !.snapshot.data[node].status = "completed",
                   !.snapshot.data[node].finished = TRUE])

\* output: the value passed, << >> for undefined
completed(s, node, output) ==
    emit([s EXCEPT !.snapshot.data[node].output = (IF output # << >> THEN output ELSE @),
                   !.snapshot.data[node].status = "completed",
                   !.snapshot.data[node].finished = TRUE])

branched(s, node, sel, reason) ==
    emit([s EXCEPT !.snapshot.data[node].status = "completed",
                   !.snapshot.data[node].selected = sel,
                   !.snapshot.data[node].reason = (IF reason # "" THEN reason ELSE @),
                   !.snapshot.data[node].finished = TRUE])

skipped(s, node) ==
    emit([s EXCEPT !.snapshot.data[node].status = "skipped",
                   !.snapshot.data[node].finished = TRUE])

suspended(s, node) ==
    emit([s EXCEPT !.snapshot.data[node].status = "suspended",
                   !.snapshot.data[node].finished = TRUE])

errored(s, node, error) ==
    emit([s EXCEPT !.snapshot.data[node].status = "errored",
                   !.snapshot.data[node].finished = TRUE,
                   !.snapshot.data[node].error = error])

\* nodes.forEach((node) => eventHandler(node).skipped()), nodes in key order
RECURSIVE forEachSkipped(_, _)
forEachSkipped(nodes, s) ==
    IF nodes = << >> THEN s
    ELSE forEachSkipped(Tail(nodes), skipped(s, Head(nodes)))

\* nodes.forEach((node) => eventHandler(node).suspended())
RECURSIVE forEachSuspended(_, _)
forEachSuspended(nodes, s) ==
    IF nodes = << >> THEN s
    ELSE forEachSuspended(Tail(nodes), suspended(s, Head(nodes)))

----------------------------------------------------------------------------
(* _runTopology.start: terminal detection and finalization *)

\* Variant: suspended is tested before errored
terminalStatus_SuspendedFirst(data) ==
    IF findKeys("suspended", data) # {} THEN "suspended"
    ELSE IF findKeys("errored", data) # {} THEN "errored"
    ELSE "completed"

\* the terminal status chosen at finalization
terminalStatus(data) ==
    IF findKeys("errored", data) # {} THEN "errored"
    ELSE IF findKeys("suspended", data) # {} THEN "suspended"
    ELSE "completed"

\* Variant: leftover pending nodes are skipped unless the run is suspended
finalize_SkipsOnError(s) ==
    LET erroredNodes == findKeys("errored", s.snapshot.data)
        hasErrors == erroredNodes # {}
        status == terminalStatus(s.snapshot.data)
        s1 == [s EXCEPT !.snapshot.status = status]
        pending == InKeyOrder(findKeys("pending", s1.snapshot.data))
        s2 == IF status = "suspended" THEN forEachSuspended(pending, s1) ELSE s1
        s3 == IF status # "suspended" THEN forEachSkipped(pending, s2) ELSE s2
        s4 == [s3 EXCEPT !.snapshot.finished = TRUE]
    IN  [ snapshot |-> s4.snapshot,
          heard    |-> s4.heard,
          event    |-> IF hasErrors THEN "error" ELSE "done",
          carried  |-> s4.snapshot,
          throws   |-> hasErrors,
          message  |-> InKeyOrder(erroredNodes) ]

\* Variant: leftover pending nodes are skipped whatever the terminal status
\* that is not errored
finalize_SkipsWhenSuspended(s) ==
    LET erroredNodes == findKeys("errored", s.snapshot.data)
        hasErrors == erroredNodes # {}
        status == terminalStatus(s.snapshot.data)
        s1 == [s EXCEPT !.snapshot.status = status]
        pending == InKeyOrder(findKeys("pending", s1.snapshot.data))
        s3 == IF status # "errored" THEN forEachSkipped(pending, s1) ELSE s1
        s4 == [s3 EXCEPT !.snapshot.finished = TRUE]
    IN  [ snapshot |-> s4.snapshot,
          heard    |-> s4.heard,
          event    |-> IF hasErrors THEN "error" ELSE "done",
          carried  |-> s4.snapshot,
          throws   |-> hasErrors,
          message  |-> InKeyOrder(erroredNodes) ]

\* Variant: the terminal event is emitted before the snapshot is updated
finalize_EmitsFirst(s) ==
    LET erroredNodes == findKeys("errored", s.snapshot.data)
        hasErrors == erroredNodes # {}
        status == terminalStatus(s.snapshot.data)
        s1 == [s EXCEPT !.snapshot.status = status]
        pending == InKeyOrder(findKeys("pending", s1.snapshot.data))
        s2 == IF status = "suspended" THEN forEachSuspended(pending, s1) ELSE s1
        s3 == IF status = "completed" THEN forEachSkipped(pending, s2) ELSE s2
        s4 == [s3 EXCEPT !.snapshot.finished = TRUE]
    IN  [ snapshot |-> s4.snapshot,
          heard    |-> s4.heard,
          event    |-> IF hasErrors THEN "error" ELSE "done",
          carried  |-> s.snapshot,
          throws   |-> hasErrors,
          message  |-> InKeyOrder(erroredNodes) ]

\* The body of `if (_.isEmpty(readyToRunNodes) && _.isEmpty(promises))`:
\* the snapshot it leaves, what the `data` listener heard, the snapshot as
\* the terminal event carried it, the event emitted and whether start()
\* throws (with the errored names).
finalize(s) ==
    LET erroredNodes == findKeys("errored", s.snapshot.data)
        hasErrors == erroredNodes # {}
        status == terminalStatus(s.snapshot.data)
        s1 == [s EXCEPT !.snapshot.status = status]
        pending == InKeyOrder(findKeys("pending", s1.snapshot.data))
        s2 == IF status = "suspended" THEN forEachSuspended(pending, s1) ELSE s1
        s3 == IF status = "completed" THEN forEachSkipped(pending, s2) ELSE s2
        s4 == [s3 EXCEPT !.snapshot.finished = TRUE]
    IN  [ snapshot |-> s4.snapshot,
          heard    |-> s4.heard,
          event    |-> IF hasErrors THEN "error" ELSE "done",
          carried  |-> s4.snapshot,
          throws   |-> hasErrors,
          message  |-> InKeyOrder(erroredNodes) ]

\* emitter.emit('error' | 'done', snapshot)
emitTerminal(em, event, snap) ==
    [ done  |-> em.done + (IF event = "done" THEN 1 ELSE 0),
      error |-> em.error + (IF event = "error" THEN 1 ELSE 0),
      last  |-> << event, snap >> ]

----------------------------------------------------------------------------
(* _runTopology.start: one pass of the `while (true)` body, up to the await *)

\* Variant: the abort signal is not consulted
readyToRunNodes_IgnoresAbort == getNodesReadyToRun(dag, snapshot.data)

\* readyToRunNodes of this pass
readyToRunNodes == IF aborted THEN {} ELSE getNodesReadyToRun(dag, snapshot.data)

\* Variant: the in-flight registry is not consulted
noMoreWork_ReadyOnly == readyToRunNodes = {}

\* "There is no more work to be done"
noMoreWork == readyToRunNodes = {} /\ promises = {}

\* what the run fn of a work or suspension node is called with, `data`
\* being what events.running(data) has just recorded as the node's input
\* and `state` the node's state in the snapshot; a selector is called with
\* `data` only
runFnInput(node, data) ==
    [ data |-> data[node].input[1],
      state |-> IF spec[node].type = "branching" THEN << >> ELSE data[node].state ]

\* for (const node of readyToRunNodes): data = getInputData(dag, node,
\* snapshot.data); events.running(data); the run fn is called
RECURSIVE forEachRunning(_, _)
forEachRunning(nodes, s) ==
    IF nodes = << >> THEN s
    ELSE forEachRunning(Tail(nodes),
                        running(s, Head(nodes),
                                getInputData(dag, Head(nodes), s.snapshot.data)))

\* The pass of loop i over the loop table lps, entered with the snapshot
\* and listener as s: finalize and settle start(), or dispatch the ready
\* nodes and await Promise.race(_.values(promises)).
LoopPass(i, lps, s) ==
    IF noMoreWork
    THEN LET f == finalize(s)
         IN  /\ snapshot' = f.snapshot
             /\ heard' = f.heard
             /\ emitted' = emitTerminal(emitted, f.event, f.carried)
             /\ loops' = [lps EXCEPT ![i] =
                            [pc |-> IF f.throws THEN "rejected" ELSE "resolved",
                             race |-> {}, message |-> f.message]]
             /\ UNCHANGED << promises, chain, dispatched, received >>
    ELSE LET r == forEachRunning(InKeyOrder(readyToRunNodes), s)
         IN  /\ snapshot' = r.snapshot
             /\ heard' = r.heard
             /\ promises' = promises \cup readyToRunNodes
             /\ chain' = [n \in DOMAIN chain |->
                            IF n \in readyToRunNodes THEN "inflight" ELSE chain[n]]
             /\ dispatched' = dispatched \cup readyToRunNodes
             /\ received' = [n \in DOMAIN received |->
                               IF n \in readyToRunNodes
                               THEN << runFnInput(n, r.snapshot.data) >>
                               ELSE received[n]]
             /\ loops' = [lps EXCEPT ![i] =
                            [pc |-> "waiting", race |-> promises \cup readyToRunNodes,
                             message |-> << >>]]
             /\ UNCHANGED emitted

NewLoop == [pc |-> "waiting", race |-> {}, message |-> << >>]

\* start() on a handle of _runTopology: emits the snapshot, then runs
\* synchronously up to the await
Start ==
    /\ handle = "run"
    /\ Len(loops) < MaxStarts
    /\ LoopPass(Len(loops) + 1, Append(loops, NewLoop), emit(Job(snapshot)))
    /\ thrown' = << >>
    /\ UNCHANGED << dag, spec, aborted, handle, resumed, given, listening, passed >>

\* start() on the handle resumeTopology returns for a completed snapshot
StartNoop ==
    /\ handle = "noop"
    /\ Len(loops) < MaxStarts
    /\ loops' = Append(loops, [pc |-> "resolved", race |-> {}, message |-> << >>])
    /\ thrown' = << >>
    /\ heard' = << >>
    /\ UNCHANGED << dag, spec, snapshot, promises, chain, aborted, handle,
                    emitted, dispatched, resumed, given, listening, passed, received >>

\* Promise.race resolved for loop i: one of the promises it awaits settled
Wake(i) ==
    /\ i \in DOMAIN loops
    /\ loops[i].pc = "waiting"
    /\ \E n \in loops[i].race : chain[n] = "settled"
    /\ LoopPass(i, loops, Job(snapshot))
    /\ UNCHANGED << dag, spec, aborted, handle, resumed, given, thrown,
                    listening, passed >>

\* Variant: stop() aborts on the no-op handle too
Stop_AbortsAnyHandle ==
    /\ aborted' = TRUE
    /\ thrown' = << >>
    /\ heard' = << >>
    /\ UNCHANGED << dag, spec, snapshot, promises, chain, loops, handle,
                    emitted, dispatched, resumed, given, listening, passed, received >>

\* stop(): abortController.abort(); on the noop handle it does nothing
Stop ==
    /\ aborted' = (aborted \/ handle = "run")
    /\ thrown' = << >>
    /\ heard' = << >>
    /\ UNCHANGED << dag, spec, snapshot, promises, chain, loops, handle,
                    emitted, dispatched, resumed, given, listening, passed, received >>

----------------------------------------------------------------------------
(* The promise chain of a dispatched node:                                  *)
(*   runFn(input).then(handler).catch(events.errored).finally(delete)       *)
(* chain[n]: "idle" not dispatched, "inflight" the run fn has not settled   *)
(* or its .then reaction has not run, "rejected" the .then handler threw    *)
(* and .catch has not run, "finally" .finally has not run, "settled".       *)

\* The string stored as `selected` for none(): NONE.toString()
NONE == "Symbol(NONE)"

\* branch(node, reason) and none(reason): the BranchingOutput, `node`
\* already as the string selected.toString() and reason "" when not given
branch(node, reason) == [node |-> node, reason |-> reason]

none(reason) == [node |-> NONE, reason |-> reason]

\* what the selector of branching node n may return: none() with a reason,
\* or branch(name), name a dependent of n or any other node
Selections(n) == {none("no branch")} \cup { branch(k, "") : k \in DOMAIN dag \ {n} }

\* what the run fn of work node n returns: a value of its own, or undefined
Output(n) == IF spec[n].returns THEN << n >> ELSE << >>

\* updateState(state) called by the running action of a work or suspension
\* node
UpdateState(n, state) ==
    /\ chain[n] = "inflight"
    /\ spec[n].run /\ spec[n].updates
    /\ dag[n].type # "branching"
    /\ LET r == updateState(Job(snapshot), n, state)
       IN  snapshot' = r.snapshot /\ heard' = r.heard
    /\ passed' = [passed EXCEPT ![n] = << state >>]
    /\ UNCHANGED << dag, spec, promises, chain, aborted, loops, handle, emitted,
                    dispatched, resumed, given, thrown, listening, received >>

\* Variant: a completion that comes after stop() is not recorded
WorkThen_DroppedAfterStop(n) ==
    /\ chain[n] = "inflight"
    /\ dag[n].type = "work"
    /\ LET r == IF aborted THEN Job(snapshot)
                ELSE completed(Job(snapshot), n, Output(n))
       IN  snapshot' = r.snapshot /\ heard' = r.heard
    /\ chain' = [chain EXCEPT ![n] = "finally"]
    /\ UNCHANGED << dag, spec, promises, aborted, loops, handle, emitted,
                    dispatched, resumed, given, thrown, listening, passed, received >>

\* .then(events.completed) of a work node whose run fn returned
WorkThen(n) ==
    /\ chain[n] = "inflight"
    /\ dag[n].type = "work"
    /\ LET r == completed(Job(snapshot), n, Output(n))
       IN  snapshot' = r.snapshot /\ heard' = r.heard
    /\ chain' = [chain EXCEPT ![n] = "finally"]
    /\ UNCHANGED << dag, spec, promises, aborted, loops, handle, emitted,
                    dispatched, resumed, given, thrown, listening, passed, received >>

\* Variant: the dependents are left as they are
handleSuspension_CompletesOnly(s, node) ==
    completed(s, node, << >>)

\* handleSuspension
handleSuspension(s, node) ==
    forEachSuspended(InKeyOrder(getDependents(node, dag)), completed(s, node, << >>))

\* .then(handleSuspension) of a suspension node whose run fn (or noOp) returned
SuspensionThen(n) ==
    /\ chain[n] = "inflight"
    /\ dag[n].type = "suspension"
    /\ LET r == handleSuspension(Job(snapshot), n)
       IN  snapshot' = r.snapshot /\ heard' = r.heard
    /\ chain' = [chain EXCEPT ![n] = "finally"]
    /\ UNCHANGED << dag, spec, promises, aborted, loops, handle, emitted,
                    dispatched, resumed, given, thrown, listening, passed, received >>

\* Variant: none() skips nothing
branchingHandler_NoneSkipsNothing(s, node, sel, reason) ==
    LET dependents == getDependents(node, dag)
        s1 == branched(s, node, sel, reason)
    IN  IF sel = NONE
        THEN [snapshot |-> s1.snapshot, heard |-> s1.heard, throws |-> FALSE]
        ELSE IF sel \notin dependents
        THEN [snapshot |-> s1.snapshot, heard |-> s1.heard, throws |-> TRUE]
        ELSE LET s2 == forEachSkipped(InKeyOrder(dependents \ {sel}), s1)
             IN  [snapshot |-> s2.snapshot, heard |-> s2.heard, throws |-> FALSE]

\* Variant: _.pull as in plain lodash, which takes (array, value): called
\* as pull(selected, dependents) it removes nothing from the dependents
branchingHandler_SkipsSelected(s, node, sel, reason) ==
    LET dependents == getDependents(node, dag)
        s1 == branched(s, node, sel, reason)
        s2 == forEachSkipped(InKeyOrder(dependents), s1)
    IN  IF sel = NONE
        THEN [snapshot |-> s2.snapshot, heard |-> s2.heard, throws |-> FALSE]
        ELSE IF sel \notin dependents
        THEN [snapshot |-> s1.snapshot, heard |-> s1.heard, throws |-> TRUE]
        ELSE [snapshot |-> s2.snapshot, heard |-> s2.heard, throws |-> FALSE]

\* Variant: the dependents other than the selected name are skipped before
\* the name is validated
branchingHandler_SkipsBeforeValidating(s, node, sel, reason) ==
    LET dependents == getDependents(node, dag)
        s1 == branched(s, node, sel, reason)
        s2 == forEachSkipped(InKeyOrder(dependents \ {sel}), s1)
    IN  [snapshot |-> s2.snapshot, heard |-> s2.heard,
         throws |-> sel # NONE /\ sel \notin dependents]

\* The .then handler of a branching node for the selector result sel:
\* the snapshot it leaves, what the `data` listener heard and whether it
\* throws 'Branch not found'.
branchingHandler(s, node, sel, reason) ==
    LET dependents == getDependents(node, dag)
        s1 == branched(s, node, sel, reason)
    IN  IF sel = NONE
        THEN LET s2 == forEachSkipped(InKeyOrder(dependents), s1)
             IN  [snapshot |-> s2.snapshot, heard |-> s2.heard, throws |-> FALSE]
        ELSE IF sel \notin dependents
        THEN [snapshot |-> s1.snapshot, heard |-> s1.heard, throws |-> TRUE]
        ELSE LET s2 == forEachSkipped(InKeyOrder(dependents \ {sel}), s1)
             IN  [snapshot |-> s2.snapshot, heard |-> s2.heard, throws |-> FALSE]

\* .then(...) of a branching node whose selector returned sel
BranchingThen(n, sel) ==
    /\ chain[n] = "inflight"
    /\ dag[n].type = "branching"
    /\ sel \in Selections(n)
    /\ LET r == branchingHandler(Job(snapshot), n, sel.node, sel.reason)
       IN  /\ snapshot' = r.snapshot
           /\ heard' = r.heard
           /\ chain' = [chain EXCEPT ![n] = IF r.throws THEN "rejected" ELSE "finally"]
    /\ UNCHANGED << dag, spec, promises, aborted, loops, handle, emitted,
                    dispatched, resumed, given, thrown, listening, passed, received >>

\* .catch(events.errored): the run fn threw (the rejection passed through
\* .then), or the .then handler threw TopologyError(`Branch not found:
\* ${selected}`), selected being what events.branched has just stored
Catch(n) ==
    /\ \/ chain[n] = "inflight" /\ spec[n].run
       \/ chain[n] = "rejected"
    /\ LET r == errored(Job(snapshot), n,
                        IF chain[n] = "rejected"
                        THEN << "Branch not found", snapshot.data[n].selected >>
                        ELSE << "Error" >>)
       IN  snapshot' = r.snapshot /\ heard' = r.heard
    /\ chain' = [chain EXCEPT ![n] = "finally"]
    /\ UNCHANGED << dag, spec, promises, aborted, loops, handle, emitted,
                    dispatched, resumed, given, thrown, listening, passed, received >>

\* Variant: the settled promise stays in the registry
Finally_KeepsPromise(n) ==
    /\ chain[n] = "finally"
    /\ promises' = promises
    /\ chain' = [chain EXCEPT ![n] = "settled"]
    /\ heard' = << >>
    /\ UNCHANGED << dag, spec, snapshot, aborted, loops, handle, emitted,
                    dispatched, resumed, given, thrown, listening, passed, received >>

\* .finally(() => { delete promises[node] })
Finally(n) ==
    /\ chain[n] = "finally"
    /\ promises' = promises \ {n}
    /\ chain' = [chain EXCEPT ![n] = "settled"]
    /\ heard' = << >>
    /\ UNCHANGED << dag, spec, snapshot, aborted, loops, handle, emitted,
                    dispatched, resumed, given, thrown, listening, passed, received >>

----------------------------------------------------------------------------
(* resumeTopology *)

\* Variant: the difference is taken the other way round
getMissingSpecNodes_SpecMinusDag(sp, g) == InKeyOrder(DOMAIN sp \ DOMAIN g)

\* getMissingSpecNodes(spec, dag): _.difference(keys(dag), keys(spec))
getMissingSpecNodes(sp, g) == InKeyOrder(DOMAIN g \ DOMAIN sp)

\* Variant: an entry that is already pending is rebuilt from deps and type
\* only
resetUncompletedNodes_PendingLosesInput(data) ==
    [ n \in DOMAIN data |->
        IF data[n].status = "completed" \/ data[n].status = "skipped"
        THEN data[n]
        ELSE [deps |-> data[n].deps, type |-> data[n].type, status |-> "pending",
              input |-> IF data[n].status # "pending" THEN data[n].input ELSE << >>,
              state |-> IF data[n].status # "pending" THEN data[n].state ELSE << >>,
              output |-> << >>, error |-> << >>, started |-> FALSE,
              finished |-> FALSE, selected |-> "", reason |-> ""] ]

\* Variant: suspended entries are kept as well
resetUncompletedNodes_KeepsSuspended(data) ==
    [ n \in DOMAIN data |->
        IF data[n].status \in {"completed", "skipped", "suspended"}
        THEN data[n]
        ELSE [deps |-> data[n].deps, type |-> data[n].type, status |-> "pending",
              input |-> data[n].input, state |-> data[n].state,
              output |-> << >>, error |-> << >>, started |-> FALSE,
              finished |-> FALSE, selected |-> "", reason |-> ""] ]

\* Variant: a reset entry keeps state, deps and type only
resetUncompletedNodes_DropsInput(data) ==
    [ n \in DOMAIN data |->
        IF data[n].status = "completed" \/ data[n].status = "skipped"
        THEN data[n]
        ELSE [deps |-> data[n].deps, type |-> data[n].type, status |-> "pending",
              input |-> << >>, state |-> data[n].state,
              output |-> << >>, error |-> << >>, started |-> FALSE,
              finished |-> FALSE, selected |-> "", reason |-> ""] ]

\* resetUncompletedNodes: keep completed and skipped entries, reset the
\* others to pending keeping only input, state, deps and type
resetUncompletedNodes(data) ==
    [ n \in DOMAIN data |->
        IF data[n].status = "completed" \/ data[n].status = "skipped"
        THEN data[n]
        ELSE [deps |-> data[n].deps, type |-> data[n].type, status |-> "pending",
              input |-> data[n].input, state |-> data[n].state,
              output |-> << >>, error |-> << >>, started |-> FALSE,
              finished |-> FALSE, selected |-> "", reason |-> ""] ]

\* Variant: `finished` is deleted from the argument instead of the copy
getResumeSnapshot_DeletesFromArgument(snapshot_, now) ==
    [ snap |-> [snapshot_ EXCEPT !.status = "running", !.started = now,
                                 !.data = resetUncompletedNodes(snapshot_.data)],
      snapshot |-> [snapshot_ EXCEPT !.finished = FALSE] ]

\* getResumeSnapshot(snapshot), called at time now: the snapshot `snap` it
\* returns, and its argument `snapshot` as the call leaves it
getResumeSnapshot(snapshot_, now) ==
    [ snap |-> [snapshot_ EXCEPT !.status = "running", !.started = now,
                                 !.data = resetUncompletedNodes(snapshot_.data),
                                 !.finished = FALSE],
      snapshot |-> snapshot_ ]

\* the times of the two factory calls: new Date() in runTopology and,
\* later, in getResumeSnapshot
RunTime == "t0"

ResumeTime == "t1"

\* `undefined` passed as the snapshot
NoSnapshot == [status |-> "undefined"]

NoEvents == [done |-> 0, error |-> 0, last |-> << >>]

LoopsSettled == \A i \in DOMAIN loops : loops[i].pc # "waiting"

\* the specs a caller may pass to resumeTopology: the spec of the run or
\* one that lacks b, d or both
PassedSpecs == { [k \in DOMAIN spec \ D |-> spec[k]] : D \in SUBSET {"b", "d"} }

\* What resumeTopology(sp, snap) throws, << >> when it returns a handle:
\* the checks of resumeTopology and of _runTopology in the order they run
resumeTopologyThrows(sp, snap) ==
    IF snap = NoSnapshot THEN << "Snapshot is undefined" >>
    ELSE IF snap.status = "completed" THEN << >>
    ELSE LET missingSpecNodes ==
                 getMissingSpecNodes(sp, extractDag(getResumeSnapshot(snap, ResumeTime).snap.data))
         IN  IF missingSpecNodes # << >>
             THEN << "Missing the following nodes in spec" >> \o missingSpecNodes
             ELSE << >>

\* resumeTopology(sp, snapshot) returns a handle, snapshot being the
\* finalized snapshot of the handle before: a no-op handle for a completed
\* snapshot, else a new handle of _runTopology with its own emitter,
\* registry and abort controller
Resume ==
    /\ snapshot.status # "running"
    /\ LoopsSettled
    /\ \E sp \in PassedSpecs : resumeTopologyThrows(sp, snapshot) = << >>
    /\ resumed' = TRUE
    /\ thrown' = << >>
    /\ heard' = << >>
    /\ loops' = << >>
    /\ emitted' = NoEvents
    /\ dispatched' = {}
    /\ promises' = {}
    /\ aborted' = FALSE
    /\ IF snapshot.status = "completed"
       THEN /\ handle' = "noop"
            /\ given' = snapshot
            /\ UNCHANGED << snapshot, dag, chain >>
       ELSE /\ handle' = "run"
            /\ given' = getResumeSnapshot(snapshot, ResumeTime).snapshot
            /\ snapshot' = getResumeSnapshot(snapshot, ResumeTime).snap
            /\ dag' = extractDag(getResumeSnapshot(snapshot, ResumeTime).snap.data)
            /\ chain' = [n \in DOMAIN snapshot.data |-> "idle"]
    /\ received' = [n \in DOMAIN received |-> << >>]
    /\ UNCHANGED << spec, listening, passed >>

\* the specs a caller may pass to resumeTopology after it has changed the
\* dependencies declared in the spec of the run (callbacks and types as
\* they were): every node declared without deps, or each node declared to
\* depend on the node before it in key order
ChangedSpecs ==
    { [k \in DOMAIN spec |-> [spec[k] EXCEPT !.deps = << >>]],
      [k \in DOMAIN spec |->
         [spec[k] EXCEPT !.deps = SelectSeq(Keys, LAMBDA j :
                                      << j, k >> \in { << "a", "b" >>, << "b", "c" >>,
                                                       << "c", "d" >> })]] }
    \ {spec}

\* Variant: the DAG of the resumed run is derived from the spec passed
resumedDag_FromSpec(sp, snap) == extractDag(sp)

\* const dag = extractDag(snap.data): the DAG of a resumed run, snap being
\* the resume snapshot
resumedDag(sp, snap) == extractDag(snap.data)

\* resumeTopology(sp, snapshot) returns a handle, sp being a spec whose deps
\* were changed: as Resume, the new handle closing over sp
ResumeWith(sp) ==
    /\ snapshot.status # "running"
    /\ LoopsSettled
    /\ resumeTopologyThrows(sp, snapshot) = << >>
    /\ spec' = sp
    /\ resumed' = TRUE
    /\ thrown' = << >>
    /\ heard' = << >>
    /\ loops' = << >>
    /\ emitted' = NoEvents
    /\ dispatched' = {}
    /\ promises' = {}
    /\ aborted' = FALSE
    /\ IF snapshot.status = "completed"
       THEN /\ handle' = "noop"
            /\ given' = snapshot
            /\ UNCHANGED << snapshot, dag, chain >>
       ELSE /\ handle' = "run"
            /\ given' = getResumeSnapshot(snapshot, ResumeTime).snapshot
            /\ snapshot' = getResumeSnapshot(snapshot, ResumeTime).snap
            /\ dag' = resumedDag(sp, getResumeSnapshot(snapshot, ResumeTime).snap)
            /\ chain' = [n \in DOMAIN snapshot.data |-> "idle"]
    /\ received' = [n \in DOMAIN received |-> << >>]
    /\ UNCHANGED << listening, passed >>

\* resumeTopology(sp, snap) throws: no handle is returned, the handle and
\* the snapshot the caller has are as they were
ResumeThrows(sp, snap) ==
    /\ snapshot.status # "running"
    /\ LoopsSettled
    /\ resumeTopologyThrows(sp, snap) # << >>
    /\ thrown' = resumeTopologyThrows(sp, snap)
    /\ heard' = << >>
    /\ UNCHANGED << dag, spec, snapshot, promises, chain, aborted, loops, handle,
                    emitted, dispatched, resumed, given, listening, passed, received >>

----------------------------------------------------------------------------
(* runTopology and the behaviours of a handle *)

\* runTopology(sp, options): the DAG of the run and the initial snapshot
runTopology(sp, options) ==
    LET dag_ == filterDAG(extractDag(sp), options)
    IN  [ dag |-> dag_,
          snapshot |-> [status |-> "running", started |-> RunTime, finished |-> FALSE,
                        data |-> initSnapshotData(dag_, options.data)] ]

\* the state after runTopology(call.spec, call.options) returned a handle
Constructed(call) ==
    /\ spec = call.spec
    /\ dag = runTopology(call.spec, call.options).dag
    /\ snapshot = runTopology(call.spec, call.options).snapshot
    /\ promises = {}
    /\ chain = [n \in DOMAIN dag |-> "idle"]
    /\ aborted = FALSE
    /\ loops = << >>
    /\ handle = "run"
    /\ emitted = NoEvents
    /\ dispatched = {}
    /\ resumed = FALSE
    /\ given = NoSnapshot
    /\ thrown = << >>
    /\ heard = << >>
    /\ passed = [n \in DOMAIN dag |-> << >>]
    /\ received = [n \in DOMAIN dag |-> << >>]

\* a handle of runTopology with no `data` listener attached
Init ==
    /\ \E call \in Calls : Constructed(call)
    /\ listening = FALSE

Next ==
    \/ Start
    \/ StartNoop
    \/ Stop
    \/ Resume
    \/ \E sp \in PassedSpecs : \E snap \in {NoSnapshot, snapshot} : ResumeThrows(sp, snap)
    \/ \E i \in 1..MaxStarts : Wake(i)
    \/ \E n \in DOMAIN dag : \E state \in States : UpdateState(n, state)
    \/ \E n \in DOMAIN dag : WorkThen(n)
    \/ \E n \in DOMAIN dag : SuspensionThen(n)
    \/ \E n \in DOMAIN dag : \E sel \in Selections(n) : BranchingThen(n, sel)
    \/ \E n \in DOMAIN dag : Catch(n)
    \/ \E n \in DOMAIN dag : Finally(n)

Spec == Init /\ [][Next]_vars

\* The run fn of a dispatched node settles: it returns (the .then handler
\* runs) or throws (.catch runs)
Settles(n) ==
    \/ WorkThen(n)
    \/ SuspensionThen(n)
    \/ \E sel \in Selections(n) : BranchingThen(n, sel)
    \/ Catch(n)

\* A job of the engine: a reaction of a node's promise chain or the
\* continuation of a call of start()
EngineJob ==
    \/ \E n \in DOMAIN dag : Settles(n) \/ Finally(n)
    \/ \E i \in 1..MaxStarts : Wake(i)

\* Every dispatched action eventually settles and the job queue runs the
\* reactions and continuations that are ready: while a job of the engine is
\* possible, one is eventually run.  start(), stop() and resumeTopology are
\* the caller's: nothing forces them; nor does anything force an action to
\* call updateState.
FairSpec == Spec /\ WF_vars(EngineJob)

----------------------------------------------------------------------------
(* The same handles with a listener for `data` attached to the emitter *)

\* the calls followed with a listener
ObservedCalls ==
    { [spec |-> MixedSpec, options |-> NoOptions],
      [spec |-> SuspensionSpec, options |-> NoOptions],
      [spec |-> StatefulSpec, options |-> [NoOptions EXCEPT !.data = << "data" >>]] }

ObservedInit ==
    /\ \E call \in ObservedCalls : Constructed(call)
    /\ listening = TRUE

ObservedSpec == ObservedInit /\ [][Next]_vars

----------------------------------------------------------------------------
(* The same handles, resumed also with a spec whose deps were changed *)

\* the calls followed
RewiredCalls ==
    { [spec |-> s, options |-> NoOptions] : s \in {DiamondSpec, MixedSpec} }
    \cup { [spec |-> StatefulSpec, options |-> [NoOptions EXCEPT !.data = << "data" >>]] }

RewiredInit ==
    /\ \E call \in RewiredCalls : Constructed(call)
    /\ listening = FALSE

RewiredNext ==
    \/ Next
    \/ \E sp \in ChangedSpecs : ResumeWith(sp)

RewiredSpec == RewiredInit /\ [][RewiredNext]_vars

----------------------------------------------------------------------------
(* getResumeSnapshot on its own: applied to any snapshot of a two-node DAG *)

\* a -> b
PairSpec ==
    [ a |-> Node(<< >>, "work", TRUE),
      b |-> Node(<< "a" >>, "work", TRUE) ]

Statuses == {"pending", "running", "completed", "errored", "skipped", "suspended"}

\* every NodeData a snapshot may hold for a node with the given deps
NodeDatas(deps) ==
    [ deps : {deps}, type : {"work", "branching", "suspension"}, status : Statuses,
      input : {<< >>, << << "data" >> >>}, state : {<< >>, << "s1" >>},
      output : {<< >>, << "a" >>},
      error : {<< >>, << "Error" >>}, started : BOOLEAN, finished : BOOLEAN,
      selected : {"", "b"}, reason : {"", "no branch"} ]

\* an entry as the engine leaves it in the given status
EntryLeftAs(deps, status) ==
    [ deps |-> deps, type |-> "work", status |-> status,
      input |-> IF status # "pending" THEN << << "a" >> >> ELSE << >>,
      state |-> << >>,
      output |-> IF status = "completed" THEN << "b" >> ELSE << >>,
      error |-> IF status = "errored" THEN << "Error" >> ELSE << >>,
      started |-> status # "pending", finished |-> status # "pending",
      selected |-> "", reason |-> "" ]

\* the snapshots getResumeSnapshot is applied to: any entry for a, an entry
\* left completed, skipped or errored for b
Snapshots ==
    { [status |-> st, started |-> RunTime, finished |-> fin,
       data |-> [a |-> ea, b |-> EntryLeftAs(<< "a" >>, sb)]] :
        st \in {"completed", "errored", "suspended"}, fin \in BOOLEAN,
        ea \in NodeDatas(<< >>), sb \in {"completed", "skipped", "errored"} }

ResumeSnapshotInit ==
    /\ spec = PairSpec
    /\ snapshot \in Snapshots
    /\ dag = extractDag(snapshot.data)
    /\ promises = {}
    /\ chain = [n \in DOMAIN spec |-> "idle"]
    /\ aborted = FALSE
    /\ loops = << >>
    /\ handle = "run"
    /\ emitted = NoEvents
    /\ dispatched = {}
    /\ resumed = FALSE
    /\ given = NoSnapshot
    /\ thrown = << >>
    /\ listening = FALSE
    /\ heard = << >>
    /\ passed = [n \in DOMAIN spec |-> snapshot.data[n].state]
    /\ received = [n \in DOMAIN spec |-> << >>]

\* snap = getResumeSnapshot(snapshot): `snapshot` becomes the snapshot
\* returned and `given` the argument as the call left it
GetResumeSnapshot ==
    /\ snapshot' = getResumeSnapshot(snapshot, ResumeTime).snap
    /\ given' = getResumeSnapshot(snapshot, ResumeTime).snapshot
    /\ resumed' = TRUE
    /\ UNCHANGED << dag, spec, promises, chain, aborted, loops, handle, emitted,
                    dispatched, thrown, listening, heard, passed, received >>

ResumeSnapshotSpec == ResumeSnapshotInit /\ [][GetResumeSnapshot]_vars

----------------------------------------------------------------------------
(* runTopology on its own: called with any of the options drawn, and the   *)
(* first call of start() on the handle it returns                          *)

\* the lists of node names passed as includeNodes or excludeNodes: in key
\* order, in another order, with a name repeated, with a name of no node
NodeLists ==
    { InKeyOrder(S) : S \in SUBSET Range(Keys) }
    \cup { << "d", "b", "c" >>, << "b", "a", "b" >>, << "c", "x" >> }

\* an optional value of the set S
Optional(S) == { << >> } \cup { << v >> : v \in S }

DrawnOptions ==
    [ data : Optional({"data"}), includeNodes : Optional(NodeLists),
      excludeNodes : Optional(NodeLists) ]

\* no factory has been called yet
FactoryInit ==
    /\ spec \in Specs
    /\ dag = << >>
    /\ snapshot = NoSnapshot
    /\ promises = {}
    /\ chain = << >>
    /\ aborted = FALSE
    /\ loops = << >>
    /\ handle = "none"
    /\ emitted = NoEvents
    /\ dispatched = {}
    /\ resumed = FALSE
    /\ given = NoSnapshot
    /\ thrown = << >>
    /\ listening = FALSE
    /\ heard = << >>
    /\ passed = << >>
    /\ received = << >>

\* runTopology(spec, options) returns a handle
RunTopology(options) ==
    /\ handle = "none"
    /\ handle' = "run"
    /\ dag' = runTopology(spec, options).dag
    /\ snapshot' = runTopology(spec, options).snapshot
    /\ chain' = [n \in DOMAIN runTopology(spec, options).dag |-> "idle"]
    /\ passed' = [n \in DOMAIN runTopology(spec, options).dag |-> << >>]
    /\ received' = [n \in DOMAIN runTopology(spec, options).dag |-> << >>]
    /\ UNCHANGED << spec, promises, aborted, loops, emitted, dispatched, resumed,
                    given, thrown, listening, heard >>

FactoryNext ==
    \/ \E options \in DrawnOptions : RunTopology(options)
    \/ Start

FactorySpec == FactoryInit /\ [][FactoryNext]_vars

----------------------------------------------------------------------------
(* Properties *)

Status(n) == snapshot.data[n].status

\* a step that finalizes the run (emits `done` or `error`)
Finalizes == emitted'.done + emitted'.error > emitted.done + emitted.error

\* C1: in a fresh or resumed run a node becomes running only from pending,
\* and only in a step before and after which every node of its deps is
\* completed.
C1_RunsOnlyWhenDepsCompleted ==
    [][ \A n \in DOMAIN dag :
          (snapshot'.data[n].status = "running" /\ Status(n) # "running")
          => /\ Status(n) = "pending"
             /\ \A d \in Range(dag[n].deps) :
                  Status(d) = "completed" /\ snapshot'.data[d].status = "completed" ]_vars

\* a node with two deps is running in a resumed run
C1_Witness ==
    \E n \in DOMAIN dag :
        Status(n) = "running" /\ Len(dag[n].deps) = 2 /\ resumed

\* C2: the status a finalizing step sets is errored if a node is errored,
\* else suspended if a node is suspended, else completed.
C2_TerminalStatusPrecedence ==
    [][ Finalizes =>
          snapshot'.status =
            IF \E n \in DOMAIN snapshot.data : Status(n) = "errored" THEN "errored"
            ELSE IF \E n \in DOMAIN snapshot.data : Status(n) = "suspended" THEN "suspended"
            ELSE "completed" ]_vars

\* a run finalized as errored with an errored and a suspended node
C2_Witness ==
    /\ snapshot.status = "errored"
    /\ emitted.error = 1
    /\ \E n \in DOMAIN snapshot.data : Status(n) = "errored"
    /\ \E n \in DOMAIN snapshot.data : Status(n) = "suspended"

\* C3: a call of start() on a run is rejected exactly when a node is errored
\* at finalization: a rejected call carries the names of exactly the errored
\* nodes, the snapshot is then errored and finished and the `error` event
\* carried it in that state; a resolved call leaves no errored node and a
\* completed or suspended snapshot.
C3_RejectsIffErrored ==
    \A i \in DOMAIN loops :
        /\ loops[i].pc = "rejected" =>
             /\ Range(loops[i].message) = findKeys("errored", snapshot.data)
             /\ loops[i].message # << >>
             /\ snapshot.status = "errored" /\ snapshot.finished
             /\ emitted.error >= 1
             /\ emitted.last[1] = "error"
             /\ emitted.last[2].status = "errored" /\ emitted.last[2].finished
        /\ (loops[i].pc = "resolved" /\ handle = "run") =>
             /\ findKeys("errored", snapshot.data) = {}
             /\ loops[i].message = << >>
             /\ snapshot.status \in {"completed", "suspended"}

\* start() was rejected naming two errored nodes
C3_Witness ==
    \E i \in DOMAIN loops : loops[i].pc = "rejected" /\ Len(loops[i].message) = 2

\* C4: on one run handle at most one terminal event is ever emitted: `done`
\* and `error` are each emitted at most once and never both, and a handle
\* whose snapshot is terminal has emitted exactly the one for its status.
C4_OneTerminalEvent ==
    /\ emitted.done <= 1
    /\ emitted.error <= 1
    /\ emitted.done + emitted.error <= 1
    /\ (handle = "run" /\ snapshot.status = "errored") =>
          emitted.error = 1 /\ emitted.done = 0
    /\ (handle = "run" /\ snapshot.status \in {"completed", "suspended"}) =>
          emitted.done = 1 /\ emitted.error = 0

\* C6: a step finalizes the run only with an empty in-flight registry, and
\* no node of a terminal snapshot is running.
C6_FinalizesOnlyWhenNothingInFlight ==
    /\ [][ Finalizes => promises = {} ]_vars
    /\ [](snapshot.status # "running" =>
            \A n \in DOMAIN snapshot.data : Status(n) # "running")

\* an errored terminal after stop(), with a node that completed after
\* another one had errored
C6_Witness ==
    /\ snapshot.status = "errored"
    /\ aborted
    /\ \E n \in DOMAIN snapshot.data : Status(n) = "completed"
    /\ promises = {}

\* C8: a step that finalizes the run as errored changes no node entry.
C8_ErroredFinalizationKeepsNodes ==
    [][ (Finalizes /\ snapshot'.status = "errored") =>
          snapshot'.data = snapshot.data ]_vars

\* an errored terminal snapshot with a node still pending
C8_Witness ==
    /\ snapshot.status = "errored"
    /\ emitted.error = 1
    /\ \E n \in DOMAIN snapshot.data : Status(n) = "pending"
    /\ \E n \in DOMAIN snapshot.data : Status(n) = "skipped"

\* some call of start() on the handle has not settled
Waiting == \E i \in DOMAIN loops : loops[i].pc = "waiting"

\* C5: when every dispatched action settles, the calls of start() that are
\* waiting eventually all have settled (a settled call never waits again)
\* with the snapshot in a terminal status; and a waiting call always awaits
\* at least one promise that is in flight or has settled (it never awaits
\* an empty race), stopped or not.
C5_StartSettles ==
    /\ Waiting ~> (/\ ~Waiting
                   /\ \A i \in DOMAIN loops : loops[i].pc \in {"resolved", "rejected"}
                   /\ snapshot.status \in {"completed", "errored", "suspended"})
    /\ [](\A i \in DOMAIN loops :
            loops[i].pc = "waiting" =>
              \E n \in loops[i].race : n \in promises \/ chain[n] = "settled")

\* a call of start() settled on a handle that was stopped while an action
\* was in flight
C5_Witness ==
    /\ handle = "run"
    /\ aborted
    /\ dispatched # {}
    /\ dispatched # DOMAIN dag
    /\ \E i \in DOMAIN loops : loops[i].pc = "resolved"

\* the nodes that depend on a node of S, directly or transitively
RECURSIVE DependentsClosure(_)
DependentsClosure(S) ==
    LET next == S \cup UNION { getDependents(n, dag) : n \in S }
    IN  IF next = S THEN S ELSE DependentsClosure(next)

AllDependents(n) == DependentsClosure(getDependents(n, dag))

\* C7: at an errored terminal, no node that depends directly or
\* transitively on an errored node has been dispatched in that run.
C7_DependentsOfErroredNeverRun ==
    (handle = "run" /\ snapshot.status = "errored") =>
        \A e \in findKeys("errored", snapshot.data) :
            AllDependents(e) \cap dispatched = {}

\* the step in which the .then handler of branching node n ran for a
\* selector result naming one of n's dependents
BranchStep(n) ==
    /\ dag[n].type = "branching"
    /\ chain[n] = "inflight"
    /\ chain'[n] # "inflight"
    /\ snapshot'.data[n].selected \in getDependents(n, dag)

\* C9: the step in which a branching node's selector result names a direct
\* dependent makes the node completed with that name as `selected`, makes
\* every other direct dependent skipped, and leaves the selected dependent
\* as it was (a pending one stays pending, not skipped).
C9_BranchSkipsTheOthers ==
    [][ \A n \in DOMAIN dag :
          BranchStep(n) =>
            LET sel == snapshot'.data[n].selected
            IN  /\ snapshot'.data[n].status = "completed"
                /\ chain'[n] = "finally"
                /\ \A d \in getDependents(n, dag) \ {sel} :
                     snapshot'.data[d].status = "skipped"
                /\ snapshot'.data[sel] = snapshot.data[sel]
                /\ Status(sel) = "pending" =>
                     (Range(dag[sel].deps) \subseteq findKeys("completed", snapshot'.data)
                        <=> sel \in getNodesReadyToRun(dag, snapshot'.data)) ]_vars

\* a branching node selected one of its two dependents, which then ran to
\* completion while the other one is skipped
C9_Witness ==
    \E n \in DOMAIN dag :
        /\ dag[n].type = "branching"
        /\ n \in dispatched
        /\ Status(n) = "completed"
        /\ Cardinality(getDependents(n, dag)) = 2
        /\ snapshot.data[n].selected \in getDependents(n, dag)
        /\ Status(snapshot.data[n].selected) = "completed"
        /\ snapshot.data[n].selected \in dispatched
        /\ \E d \in getDependents(n, dag) : Status(d) = "skipped"

\* the step in which the .then handler of branching node n ran for none()
NoneStep(n) ==
    /\ dag[n].type = "branching"
    /\ chain[n] = "inflight"
    /\ chain'[n] # "inflight"
    /\ snapshot'.data[n].selected = NONE

\* C10: the step in which a branching node's selector returns none() makes
\* the node completed and every direct dependent skipped; and no dependent
\* of a node that branched to none() in this run is dispatched in it.
C10_NoneSkipsAllDependents ==
    /\ [][ \A n \in DOMAIN dag :
             NoneStep(n) =>
               /\ snapshot'.data[n].status = "completed"
               /\ \A d \in getDependents(n, dag) :
                    snapshot'.data[d].status = "skipped" ]_vars
    /\ [](\A n \in DOMAIN dag :
            (n \in dispatched /\ snapshot.data[n].selected = NONE) =>
               getDependents(n, dag) \cap dispatched = {})

\* a run reached its terminal after a branching node with two dependents
\* returned none()
C10_Witness ==
    \E n \in DOMAIN dag :
        /\ n \in dispatched
        /\ snapshot.data[n].selected = NONE
        /\ Status(n) = "completed"
        /\ Cardinality(getDependents(n, dag)) = 2
        /\ snapshot.status # "running"

\* branching node n of this run was given a selector result branch(name)
\* with name not one of its direct dependents
BadBranch(n) ==
    /\ dag[n].type = "branching"
    /\ n \in dispatched
    /\ snapshot.data[n].selected \notin {"", NONE} \cup getDependents(n, dag)

\* C11: a branching node whose selector returned branch(name), name not a
\* direct dependent, is errored with the error 'Branch not found: name' once
\* its .catch reaction has run and from then on; the .then and .catch
\* reactions of such a node change the entry of none of its dependents
\* (none is marked skipped); and the run's terminal status is errored.
C11_BranchNotFound ==
    /\ [](\A n \in DOMAIN dag :
            (BadBranch(n) /\ chain[n] \in {"finally", "settled"}) =>
               /\ Status(n) = "errored"
               /\ snapshot.data[n].error =
                    << "Branch not found", snapshot.data[n].selected >>)
    /\ [](\A n \in DOMAIN dag :
            (handle = "run" /\ snapshot.status # "running" /\ BadBranch(n)) =>
               /\ Status(n) = "errored"
               /\ snapshot.status = "errored")
    /\ [][ \A n \in DOMAIN dag :
             (dag[n].type = "branching" /\ chain'[n] # chain[n]
                /\ chain[n] \in {"inflight", "rejected"}
                /\ snapshot'.data[n].selected \notin {"", NONE} \cup getDependents(n, dag))
             => \A d \in getDependents(n, dag) :
                   snapshot'.data[d] = snapshot.data[d] ]_vars

\* a run finalized after a branching node with two dependents was given a
\* name that is not one of them
C11_Witness ==
    \E n \in DOMAIN dag :
        /\ BadBranch(n)
        /\ handle = "run"
        /\ snapshot.status = "errored"
        /\ emitted.error = 1
        /\ Cardinality(getDependents(n, dag)) = 2
        /\ snapshot.data[n].error = << "Branch not found", snapshot.data[n].selected >>

\* the nodes n depends on, directly or transitively
RECURSIVE DepsClosure(_)
DepsClosure(S) ==
    LET next == S \cup UNION { Range(dag[n].deps) : n \in S }
    IN  IF next = S THEN S ELSE DepsClosure(next)

AllDeps(n) == DepsClosure(Range(dag[n].deps))

\* k is skipped and a completed branching node it depends on directly
\* selected another node or none
SkippedByBranching(k) ==
    /\ Status(k) = "skipped"
    /\ \E b \in Range(dag[k].deps) :
          /\ dag[b].type = "branching"
          /\ Status(b) = "completed"
          /\ snapshot.data[b].selected # k

\* n depends, directly or transitively, on a node a branching node skipped
DependsOnSkipped(n) == \E k \in AllDeps(n) : SkippedByBranching(k)

\* n is a direct dependent of a branching node
BranchTarget(n) == \E k \in Range(dag[n].deps) : dag[k].type = "branching"

\* C12: the step in which a branching node's selector result is handled
\* changes the entries of the node and of its direct dependents only; a node
\* that depends directly or transitively on a node so skipped is never
\* dispatched in the run, and while the run is running it is pending
\* (unless a branching node it depends on directly has skipped it); at a
\* completed terminal every such node is skipped.
C12_SkippingIsShallow ==
    /\ [][ \A n \in DOMAIN dag :
             (BranchStep(n) \/ NoneStep(n)) =>
                \A k \in DOMAIN dag \ (getDependents(n, dag) \cup {n}) :
                   snapshot'.data[k] = snapshot.data[k] ]_vars
    /\ [](handle = "run" =>
            \A n \in DOMAIN dag :
               DependsOnSkipped(n) =>
                  /\ n \notin dispatched
                  /\ snapshot.status = "running" =>
                       (Status(n) = "pending" \/ (BranchTarget(n) /\ Status(n) = "skipped"))
                  /\ snapshot.status = "completed" => Status(n) = "skipped")

\* the step in which the .then handler of suspension node n ran: its
\* action returned, or the node has no action
SuspensionStep(n) ==
    /\ dag[n].type = "suspension"
    /\ chain[n] = "inflight"
    /\ snapshot'.data[n].status = "completed"

\* C13: the step in which a suspension node's action has returned (or the
\* no-op standing in for a missing action) makes the node completed and
\* every direct dependent suspended with a finished timestamp; and no direct
\* dependent of a suspension node that completed in this run is dispatched
\* in this run.
C13_SuspensionSuspendsDependents ==
    /\ [][ \A n \in DOMAIN dag :
             SuspensionStep(n) =>
                \A d \in getDependents(n, dag) :
                   /\ snapshot'.data[d].status = "suspended"
                   /\ snapshot'.data[d].finished ]_vars
    /\ [](\A n \in DOMAIN dag :
            (dag[n].type = "suspension" /\ n \in dispatched /\ Status(n) = "completed")
            => getDependents(n, dag) \cap dispatched = {})

\* a run ended suspended after a suspension node without an action
\* completed and suspended its dependent
C13_Witness ==
    \E n \in DOMAIN dag :
        /\ dag[n].type = "suspension"
        /\ ~spec[n].run
        /\ n \in dispatched
        /\ Status(n) = "completed"
        /\ getDependents(n, dag) # {}
        /\ \A d \in getDependents(n, dag) :
              Status(d) = "suspended" /\ snapshot.data[d].finished
        /\ snapshot.status = "suspended"

\* C14: at every terminal of a run in which a suspension node completed and
\* no node is errored, the run's status is suspended.
C14_SuspensionYieldsSuspended ==
    (/\ handle = "run"
     /\ snapshot.status # "running"
     /\ findKeys("errored", snapshot.data) = {}
     /\ \E n \in dispatched : dag[n].type = "suspension" /\ Status(n) = "completed")
    => snapshot.status = "suspended"

\* the step in which resumeTopology returned a handle of _runTopology
ResumeStep ==
    /\ snapshot.status # "running"
    /\ snapshot'.status = "running"
    /\ handle' = "run"

\* the handle is one of a run resumed from a suspended snapshot
ResumedFromSuspended == handle = "run" /\ resumed /\ given.status = "suspended"

\* the suspension nodes that were completed in the snapshot resumed from
CompletedSuspensions ==
    { n \in DOMAIN given.data :
        given.data[n].type = "suspension" /\ given.data[n].status = "completed" }

\* a pass of the scheduler loop of a call of start() (first or continued)
Pass == Len(loops') >= Len(loops) /\ loops' # loops

\* C15: resuming a suspended snapshot resets every suspended node to
\* pending; in the resumed run a suspension node that was completed in the
\* snapshot is never dispatched; every pass of the scheduler loop, unless
\* the run was stopped, dispatches each pending direct dependent of such a
\* node whose deps are all completed; and a terminal of the resumed run
\* with no errored node and no suspension node completed in it is
\* completed.
C15_ResumeAfterSuspension ==
    /\ [][ (ResumeStep /\ snapshot.status = "suspended") =>
             \A n \in DOMAIN snapshot.data :
                Status(n) = "suspended" => snapshot'.data[n].status = "pending" ]_vars
    /\ [](ResumedFromSuspended => CompletedSuspensions \cap dispatched = {})
    /\ [][ (ResumedFromSuspended /\ Pass /\ ~aborted) =>
             \A s \in CompletedSuspensions : \A d \in getDependents(s, dag) :
                (Status(d) = "pending"
                   /\ Range(dag[d].deps) \subseteq findKeys("completed", snapshot.data))
                => (snapshot'.data[d].status = "running" /\ d \in dispatched') ]_vars
    /\ []((/\ ResumedFromSuspended
            /\ snapshot.status # "running"
            /\ findKeys("errored", snapshot.data) = {}
            /\ ~ \E n \in dispatched :
                   dag[n].type = "suspension" /\ Status(n) = "completed")
           => snapshot.status = "completed")

\* a run resumed from a suspended snapshot ended completed after the
\* dependents of the suspension node ran
C15_Witness ==
    /\ ResumedFromSuspended
    /\ snapshot.status = "completed"
    /\ ~aborted
    /\ CompletedSuspensions # {}
    /\ \A s \in CompletedSuspensions :
          /\ getDependents(s, dag) # {}
          /\ \A d \in getDependents(s, dag) :
                /\ given.data[d].status = "suspended"
                /\ d \in dispatched
                /\ Status(d) = "completed"

\* the nodes that were completed or skipped in the snapshot resumed from
Finished == { n \in DOMAIN given.data : given.data[n].status \in {"completed", "skipped"} }

\* C16: resumeTopology keeps the entry of every completed or skipped node of
\* the snapshot it is given as it is, and in the resumed run such a node is
\* never dispatched and its status stays what it was in that snapshot.
C16_ResumeKeepsFinishedWork ==
    /\ [][ ResumeStep =>
             \A n \in DOMAIN snapshot.data :
                Status(n) \in {"completed", "skipped"}
                => snapshot'.data[n] = snapshot.data[n] ]_vars
    /\ []((handle = "run" /\ resumed) =>
            \A n \in Finished :
               n \notin dispatched /\ Status(n) = given.data[n].status)

\* what resetting leaves of an entry: input, state, deps and type, with
\* status pending
Reset(entry) ==
    [ deps |-> entry.deps, type |-> entry.type, status |-> "pending",
      input |-> entry.input, state |-> entry.state,
      output |-> << >>, error |-> << >>, started |-> FALSE, finished |-> FALSE,
      selected |-> "", reason |-> "" ]

\* C17: every application of getResumeSnapshot to a snapshot S returns a
\* snapshot with status running, the time of the call as started and no
\* finished, in which every node of S that is pending, running, errored or
\* suspended is pending with only the input, state, deps and type it had
\* in S; and S is after the call what it was before.
C17_GetResumeSnapshot ==
    [][ /\ snapshot'.status = "running"
        /\ snapshot'.started = ResumeTime
        /\ ~snapshot'.finished
        /\ DOMAIN snapshot'.data = DOMAIN snapshot.data
        /\ \A n \in DOMAIN snapshot.data :
              Status(n) \in {"pending", "running", "errored", "suspended"}
              => snapshot'.data[n] = Reset(snapshot.data[n])
        /\ given' = snapshot ]_vars

\* getResumeSnapshot was applied to a finished errored snapshot whose node a
\* was errored with every field set
C17_Witness ==
    /\ resumed
    /\ given.status = "errored" /\ given.finished
    /\ given.data["a"].status = "errored"
    /\ given.data["a"].input # << >> /\ given.data["a"].state # << >>
    /\ given.data["a"].output # << >>
    /\ given.data["a"].started /\ given.data["a"].finished
    /\ given.data["a"].error # << >>
    /\ given.data["a"].selected # "" /\ given.data["a"].reason # ""
    /\ snapshot.data["a"].status = "pending"
    /\ snapshot.data["a"].input # << >> /\ snapshot.data["a"].state # << >>
    /\ snapshot.status = "running" /\ ~snapshot.finished

\* C18: for every snapshot data S, resetUncompletedNodes applied to
\* resetUncompletedNodes(S) gives resetUncompletedNodes(S): so it is for the
\* data of every snapshot drawn and of every snapshot returned, and
\* applying getResumeSnapshot to a snapshot it returned leaves the data as
\* it is.
C18_ResetIsIdempotent ==
    /\ [](resetUncompletedNodes(resetUncompletedNodes(snapshot.data))
            = resetUncompletedNodes(snapshot.data))
    /\ [][ resumed => snapshot'.data = snapshot.data ]_vars

\* getResumeSnapshot was applied to a snapshot it had returned, in which a
\* node reset from errored has kept its input and state
C18_Witness ==
    /\ resumed
    /\ given.status = "running"
    /\ given.started = ResumeTime
    /\ snapshot.data = given.data
    /\ snapshot.data["b"].status = "pending" /\ snapshot.data["b"].input # << >>
    /\ snapshot.data["a"].status = "pending" /\ snapshot.data["a"].state # << >>

\* C19: on the handle resumeTopology returns for a completed snapshot
\* every call of start() is resolved, no node has been dispatched, no
\* terminal event has been emitted, stop() has aborted nothing, and the
\* snapshot of the handle is the snapshot given, with status completed.
C19_ResumeCompletedIsNoop ==
    handle = "noop" =>
        /\ \A i \in DOMAIN loops : loops[i].pc = "resolved"
        /\ dispatched = {}
        /\ promises = {}
        /\ \A n \in DOMAIN chain : chain[n] \in {"idle", "settled"}
        /\ emitted = NoEvents
        /\ ~aborted
        /\ snapshot = given
        /\ snapshot.status = "completed"

\* start() was called twice on the handle resumed from a completed
\* snapshot that holds a skipped node
C19_Witness ==
    /\ handle = "noop"
    /\ Len(loops) = 2
    /\ \E n \in DOMAIN snapshot.data : Status(n) = "skipped"

\* the step in which a call of resumeTopology threw
ThrowStep == thrown' # << >> /\ thrown' # thrown

\* the nodes of the snapshot that the spec sp lacks
Missing(sp) == DOMAIN snapshot.data \ DOMAIN sp

\* C20: resumeTopology throws 'Snapshot is undefined' when given no
\* snapshot, whatever the spec; given a finalized snapshot that is not
\* completed and a spec that lacks some of its nodes it throws 'Missing the
\* following nodes in spec' with exactly the lacking names, in key order;
\* and a call that throws returns no handle, emits no event and invokes no
\* action: the handle, snapshot, events, dispatched nodes and calls of
\* start() the caller has are as before.
C20_ValidationThrowsAtOnce ==
    /\ [](snapshot.status # "running" =>
            \A sp \in PassedSpecs :
               /\ resumeTopologyThrows(sp, NoSnapshot) = << "Snapshot is undefined" >>
               /\ (snapshot.status # "completed" /\ Missing(sp) # {}) =>
                     resumeTopologyThrows(sp, snapshot) =
                        << "Missing the following nodes in spec" >> \o InKeyOrder(Missing(sp))
               /\ (snapshot.status # "completed" /\ Missing(sp) = {}) =>
                     resumeTopologyThrows(sp, snapshot) = << >>)
    /\ [][ ThrowStep =>
             /\ \/ thrown' = << "Snapshot is undefined" >>
                \/ \E sp \in PassedSpecs :
                      /\ Missing(sp) # {}
                      /\ thrown' = << "Missing the following nodes in spec" >>
                                      \o InKeyOrder(Missing(sp))
             /\ UNCHANGED << dag, spec, snapshot, promises, chain, aborted, loops,
                             handle, emitted, dispatched, resumed, given >> ]_vars

\* resumeTopology threw for a spec that lacks two nodes of an errored
\* snapshot
C20_Witness ==
    /\ Len(thrown) = 3
    /\ thrown[1] = "Missing the following nodes in spec"
    /\ snapshot.status = "errored"
    /\ handle = "run"

\* the step in which resumeTopology returned a handle (of either kind)
NewHandle == loops # << >> /\ loops' = << >>

C22_StopLetsActionsFinish ==
    [][ (aborted /\ handle = "run") =>
          /\ \A n \in DOMAIN dag :
               chain[n] = "inflight" =>
                 /\ n \in promises'
                 /\ snapshot'.status = "running"
                 /\ chain'[n] \in {"inflight", "finally", "rejected"}
                 /\ (chain'[n] # "inflight" /\ dag[n].type = "work") =>
                      /\ \/ /\ snapshot'.data[n].status = "completed"
                            /\ snapshot'.data[n].output = Output(n)
                            /\ snapshot'.data[n].error = << >>
                         \/ /\ snapshot'.data[n].status = "errored"
                            /\ snapshot'.data[n].error # << >>
                            /\ snapshot'.data[n].output = << >>
                      /\ snapshot'.data[n].finished
                      /\ \A k \in DOMAIN dag \ {n} : snapshot'.data[k] = snapshot.data[k]
          /\ Finalizes =>
               \A n \in dispatched :
                 chain[n] = "settled" /\ Status(n) \notin {"pending", "running"} ]_vars

\* a stopped run ended errored, with a work node completed with its output,
\* another dispatched node errored and a node never dispatched
C22_Witness ==
    /\ aborted
    /\ handle = "run"
    /\ snapshot.status = "errored"
    /\ \E n \in dispatched :
         /\ dag[n].type = "work"
         /\ Status(n) = "completed"
         /\ snapshot.data[n].output = << n >>
         /\ \E d \in getDependents(n, dag) : Status(d) = "pending" /\ d \notin dispatched
    /\ \E m \in dispatched : Status(m) = "errored"

\* C23: the state of every node in the snapshot is the value last passed to
\* that node's updateState (absent if none was), in a first run and in runs
\* resumed from its snapshots; the step in which a running node becomes
\* completed or errored leaves its state as it was.
C23_StateIsLastPassed ==
    /\ [](\A n \in DOMAIN snapshot.data : snapshot.data[n].state = passed[n])
    /\ [][ \A n \in DOMAIN dag :
             (Status(n) = "running" /\ snapshot'.data[n].status \in {"completed", "errored"})
             => snapshot'.data[n].state = snapshot.data[n].state ]_vars

\* a run was resumed from the errored snapshot of a run in which node b
\* errored after it had passed s2 to updateState: b is
\* pending again with state s2, and a, which completed, has kept its s1
C23_Witness ==
    /\ resumed
    /\ handle = "run"
    /\ given.status = "errored"
    /\ given.data["b"].status = "errored"
    /\ given.data["b"].state = << "s2" >>
    /\ Status("b") = "pending"
    /\ snapshot.data["b"].state = << "s2" >>
    /\ Status("a") = "completed"
    /\ snapshot.data["a"].state = << "s1" >>

\* the DAG the reference filter gives for DAG g and the options
FilterReference(g, options) ==
    IF options.excludeNodes # << >>
    THEN LET out == Range(options.excludeNodes[1])
         IN  [ n \in DOMAIN g \ out |->
                 [deps |-> SelectSeq(g[n].deps, LAMBDA d : d \notin out),
                  type |-> g[n].type] ]
    ELSE IF options.includeNodes # << >>
    THEN LET in == Range(options.includeNodes[1])
         IN  [ n \in DOMAIN g \cap in |->
                 [deps |-> SelectSeq(g[n].deps, LAMBDA d : d \in in),
                  type |-> g[n].type] ]
    ELSE g

\* C24: for the DAG of every spec and all options drawn, the DAG that
\* runTopology obtains from filterDAG is the one of the reference filter:
\* with excludeNodes (whether or not includeNodes is given too) the nodes
\* not listed, their deps without the listed ones; else with includeNodes
\* the nodes listed, their deps restricted to the listed ones; else the DAG
\* itself; deps in their original order and types as they were.
C24_FilterDAG ==
    [][ \A options \in DrawnOptions :
          RunTopology(options) => dag' = FilterReference(extractDag(spec), options) ]_vars

\* the diamond was filtered down to b, c and d: a is gone from the deps of
\* b and c, and d has kept its deps in their order
C24_Witness ==
    /\ handle = "run"
    /\ spec = DiamondSpec
    /\ DOMAIN dag = {"b", "c", "d"}
    /\ dag["b"].deps = << >>
    /\ dag["d"] = [deps |-> << "c", "b" >>, type |-> "work"]

\* the concatenation of a sequence of sequences
RECURSIVE Flatten(_)
Flatten(ss) == IF ss = << >> THEN << >> ELSE Head(ss) \o Flatten(Tail(ss))

\* what dep contributes to the input of a dependent, by the snapshot data:
\* one element for a work dep, its output; the elements of its own input
\* for a branching or suspension dep
Contribution(dep, data) ==
    IF dag[dep].type = "work"
    THEN << IF data[dep].output # << >> THEN data[dep].output[1] ELSE undefined >>
    ELSE IF data[dep].input # << >> THEN data[dep].input[1] ELSE << >>

\* the outputs of the work deps of n, in the order of its deps
WorkOutputs(n) ==
    LET deps == SelectSeq(dag[n].deps, LAMBDA d : dag[d].type = "work")
    IN  [ i \in 1..Len(deps) |->
            IF snapshot.data[deps[i]].output # << >>
            THEN snapshot.data[deps[i]].output[1] ELSE undefined ]

\* whether sequence s can be obtained from sequence t by leaving elements out
RECURSIVE IsSubsequence(_, _)
IsSubsequence(s, t) ==
    IF s = << >> THEN TRUE
    ELSE IF t = << >> THEN FALSE
    ELSE IF Head(s) = Head(t) THEN IsSubsequence(Tail(s), Tail(t))
    ELSE IsSubsequence(s, Tail(t))

\* C25: a node with no recorded input that is dispatched gets as input the
\* concatenation, in the order of its deps, of what each dep contributes
\* (a work dep its output, a branching or suspension dep the elements of
\* its own input); and in every step in which a running node completes,
\* the outputs of its work deps are in its input, in the order of its deps.
C25_InputFromDeps ==
    [][ \A n \in DOMAIN dag :
          /\ (Status(n) = "pending" /\ snapshot'.data[n].status = "running"
                /\ snapshot.data[n].input = << >>)
             => snapshot'.data[n].input =
                  << Flatten([ i \in 1..Len(dag[n].deps) |->
                                 Contribution(dag[n].deps[i], snapshot.data) ]) >>
          /\ (Status(n) = "running" /\ snapshot'.data[n].status = "completed")
             => /\ snapshot.data[n].input # << >>
                /\ IsSubsequence(WorkOutputs(n), snapshot.data[n].input[1]) ]_vars

\* in the diamond d, whose deps are c and b in this order, has completed
\* with the outputs of c and b as its input
C25_Witness ==
    /\ spec = DiamondSpec
    /\ Status("d") = "completed"
    /\ dag["d"].deps = << "c", "b" >>
    /\ snapshot.data["d"].input = << << "c", "b" >> >>

\* C26: the snapshot runTopology builds has exactly one entry per node of
\* the filtered DAG, pending, with the node's deps and type; when
\* options.data is given the nodes without deps in the filtered DAG, and
\* only they, have the input [data], and when it is not no node has an
\* input; the first start() dispatches the nodes without deps with the
\* input they have, else with the empty array.
C26_InitialSnapshot ==
    [][ /\ \A options \in DrawnOptions :
             RunTopology(options) =>
               /\ DOMAIN snapshot'.data = DOMAIN dag'
               /\ snapshot'.status = "running"
               /\ \A n \in DOMAIN dag' :
                    /\ snapshot'.data[n].status = "pending"
                    /\ snapshot'.data[n].deps = dag'[n].deps
                    /\ snapshot'.data[n].type = dag'[n].type
                    /\ snapshot'.data[n].output = << >>
                    /\ snapshot'.data[n].input =
                         IF options.data # << >> /\ dag'[n].deps = << >>
                         THEN << << options.data[1] >> >> ELSE << >>
        /\ (handle = "run" /\ loops = << >> /\ loops' # << >>) =>
             \A n \in DOMAIN dag :
               /\ snapshot'.data[n].status = "running" <=> (dag[n].deps = << >>)
               /\ dag[n].deps = << >> =>
                    snapshot'.data[n].input =
                      IF snapshot.data[n].input # << >> THEN snapshot.data[n].input
                      ELSE << << >> >>
               /\ dag[n].deps # << >> => snapshot'.data[n] = snapshot.data[n] ]_vars

\* the diamond was run without a, with initial data: b and c, which have no
\* deps left, run with the input [data] and d has no input
C26_Witness ==
    /\ spec = DiamondSpec
    /\ DOMAIN dag = {"b", "c", "d"}
    /\ Status("b") = "running" /\ Status("c") = "running" /\ Status("d") = "pending"
    /\ snapshot.data["b"].input = << << "data" >> >>
    /\ snapshot.data["c"].input = << << "data" >> >>
    /\ snapshot.data["d"].input = << >>

\* the status changes of a node that the lifecycle allows within a run
Lifecycle ==
    { << "pending", "running" >>, << "running", "completed" >>,
      << "running", "errored" >>, << "pending", "skipped" >>,
      << "pending", "suspended" >> }

\* C27: on one handle every change of a node's status is one of pending ->
\* running, running -> completed, running -> errored, pending -> skipped,
\* pending -> suspended (so completed, errored, skipped and suspended are
\* never left and a running node is never skipped or suspended); the step
\* in which resumeTopology returns a new handle changes statuses only to
\* pending.
C27_NodeLifecycle ==
    [][ \A n \in DOMAIN dag :
          snapshot'.data[n].status # Status(n) =>
            IF NewHandle THEN snapshot'.data[n].status = "pending"
            ELSE << Status(n), snapshot'.data[n].status >> \in Lifecycle ]_vars

\* a snapshot has `finished` exactly when its status is a terminal one
FinishedWithStatus(snap) ==
    /\ snap.status \in {"completed", "errored", "suspended"} => snap.finished
    /\ snap.status = "running" => ~snap.finished

\* C28: the snapshot of a handle, as it is between jobs and as each `data`
\* emission shows it to a listener, has `finished` set when its status is
\* completed, errored or suspended and unset when it is running; and a step
\* sets `finished` only when it finalizes the run and finds it unset.
C28_FinishedOnceAtTerminal ==
    /\ [](handle = "run" =>
            /\ FinishedWithStatus(snapshot)
            /\ \A i \in DOMAIN heard : FinishedWithStatus(heard[i]))
    /\ [][ (handle = "run" /\ handle' = "run" /\ ~NewHandle) =>
             /\ Finalizes => ~snapshot.finished
             /\ (snapshot'.finished /\ ~snapshot.finished) => Finalizes ]_vars

\* the nodes whose entries differ between two snapshots
DiffNodes(s, t) == { n \in DOMAIN s.data : s.data[n] # t.data[n] }

\* the snapshot at the beginning of the step, followed by the snapshot as
\* each `data` emission of the step carried it
Emissions == << snapshot >> \o heard'

\* C29: to a `data` listener every step of a handle shows each node-level
\* update by an emission of its own that carries the snapshot as it is
\* right after the update: from one emission to the next (and from the
\* beginning of the step to the first) at most one node entry differs, the
\* last emission shows the node entries as the step leaves them, a step
\* that changes a node entry emits at least once, and there are no more
\* emissions than entries changed and the one start() opens with, unless a
\* node was skipped or suspended that already was.
C29_DataFollowsEveryUpdate ==
    [][ (listening /\ ~NewHandle) =>
          /\ \A i \in 1..Len(heard') :
               Cardinality(DiffNodes(Emissions[i], Emissions[i + 1])) <= 1
          /\ heard' # << >> => heard'[Len(heard')].data = snapshot'.data
          /\ snapshot'.data # snapshot.data => heard' # << >>
          /\ Len(heard') <= Cardinality(DiffNodes(snapshot, snapshot')) + 1
             \/ \E n \in DOMAIN dag :
                  /\ snapshot'.data[n] = snapshot.data[n]
                  /\ Status(n) \in {"skipped", "suspended"} ]_vars

\* a listener has just received three emissions from one call of start():
\* the snapshot as it was, then with a running, then with b running too
C29_Witness ==
    /\ listening
    /\ Len(heard) = 3
    /\ \A n \in DOMAIN dag : heard[1].data[n].status = "pending"
    /\ heard[2].data["a"].status = "running" /\ heard[2].data["b"].status = "pending"
    /\ heard[3].data["b"].status = "running"
    /\ heard[3] = snapshot

\* the nodes an uninterrupted run completes when its branching nodes select
\* as recorded in data: those among S all of whose deps are completed and
\* which no branching dep left out (least fixed point from the empty set)
RECURSIVE CompletesInOneGo(_, _)
CompletesInOneGo(S, data) ==
    LET more == { n \in DOMAIN dag :
                    /\ Range(dag[n].deps) \subseteq S
                    /\ \A b \in Range(dag[n].deps) :
                         dag[b].type = "branching" => data[b].selected = n }
    IN  IF more \subseteq S THEN S ELSE CompletesInOneGo(S \cup more, data)

\* the actions behaved the same in the run resumed from and in this one: a
\* selector that had returned selected the same again
SameSelections ==
    \A b \in DOMAIN dag :
      (dag[b].type = "branching" /\ given.data[b].selected # "")
      => snapshot.data[b].selected = given.data[b].selected

\* C30: when a run resumed from an errored snapshot of a topology without
\* suspension nodes has ended completed, its actions having selected as
\* before, the completed nodes are those a run completing in one go
\* completes, each work node among them has its output and no other node
\* has one.
C30_ResumeEqualsOneGo ==
    (/\ handle = "run" /\ resumed
     /\ given.status = "errored"
     /\ snapshot.status = "completed"
     /\ \A n \in DOMAIN dag : dag[n].type # "suspension"
     /\ SameSelections)
    => /\ findKeys("completed", snapshot.data) = CompletesInOneGo({}, snapshot.data)
       /\ \A n \in DOMAIN dag :
            snapshot.data[n].output =
              IF n \in CompletesInOneGo({}, snapshot.data) /\ dag[n].type = "work"
              THEN Output(n) ELSE << >>

\* C31: to a `data` listener the entry of each node goes, on one handle,
\* through running, then changes of its state only, then one change to
\* completed or errored and nothing after it: from one emission to the next
\* a running node stays running or becomes completed or errored, a node
\* that is completed or errored keeps that status, and the state of a node
\* changes only while it is running before and after.
C31_NodeEventsOrdered ==
    [][ (listening /\ ~NewHandle) =>
          \A i \in 1..Len(heard') : \A n \in DOMAIN dag :
            LET before == Emissions[i].data[n]
                after == Emissions[i + 1].data[n]
            IN  /\ before.status = "running" =>
                     after.status \in {"running", "completed", "errored"}
                /\ before.status \in {"completed", "errored"} =>
                     after.status = before.status
                /\ after.state # before.state =>
                     before.status = "running" /\ after.status = "running" ]_vars

\* the step calls the run fn of node n
Invokes(n) == received[n] = << >> /\ received'[n] # << >>

\* C32: on a resumed handle the run fn of a node whose entry in the
\* snapshot resumed from has an input is called with exactly that input,
\* and, unless it is a selector, with the state recorded there, which is
\* the value last passed to the node's updateState; on any handle a node
\* with no recorded input is called with the input computed from its deps
\* as they are at dispatch; and in a snapshot that ended errored or
\* suspended the nodes with an input are those dispatched in that run or
\* recorded with an input in the snapshot it was resumed from.
C32_ResumedInputAndState ==
    /\ [][ \A n \in DOMAIN dag :
             (Invokes(n) /\ handle = "run") =>
               /\ (resumed /\ given.data[n].input # << >>) =>
                    /\ received'[n][1].data = given.data[n].input[1]
                    /\ dag[n].type # "branching" =>
                         /\ received'[n][1].state = given.data[n].state
                         /\ received'[n][1].state = passed[n]
               /\ snapshot.data[n].input = << >> =>
                    received'[n][1].data =
                      Flatten([ i \in 1..Len(dag[n].deps) |->
                                  Contribution(dag[n].deps[i], snapshot.data) ]) ]_vars
    /\ []((handle = "run" /\ snapshot.status \in {"errored", "suspended"}) =>
            \A n \in DOMAIN dag :
              snapshot.data[n].input # << >> =>
                \/ n \in dispatched
                \/ resumed /\ given.data[n].input # << >>)

\* a run resumed from an errored snapshot has called the run fn of a again,
\* with the initial data it was first called with and the state s2 it had
\* recorded before it threw
C32_Witness ==
    /\ resumed
    /\ handle = "run"
    /\ spec = StatefulSpec
    /\ given.data["a"].status = "errored"
    /\ given.data["a"].state = << "s2" >>
    /\ received["a"] = << [data |-> << "data" >>, state |-> << "s2" >>] >>
    /\ Status("a") = "running"

\* C33: on the emitter of a handle no `data` event follows the terminal
\* `done` or `error` event, and no `data` event carries the snapshot with a
\* terminal status: a listener for `data` only ever sees the status running.
C33_NoDataOnceFinished ==
    [][ (listening /\ handle = "run" /\ ~NewHandle) =>
          /\ emitted.done + emitted.error > 0 => heard' = << >>
          /\ \A i \in DOMAIN heard' : heard'[i].status = "running" ]_vars

\* C34: the step that finalizes a run changes pending entries only: each
\* becomes suspended when the terminal status is suspended, skipped when it
\* is completed, and stays pending when it is errored; and a snapshot with
\* status completed holds completed and skipped nodes only, one with status
\* suspended no pending and no running node.
C34_FinalizationConvertsPending ==
    /\ [][ Finalizes =>
             \A n \in DOMAIN dag :
               IF Status(n) = "pending"
               THEN snapshot'.data[n].status =
                      CASE snapshot'.status = "suspended" -> "suspended"
                        [] snapshot'.status = "completed" -> "skipped"
                        [] OTHER -> "pending"
               ELSE snapshot'.data[n] = snapshot.data[n] ]_vars
    /\ [](handle = "run" =>
            /\ snapshot.status = "completed" =>
                 \A n \in DOMAIN dag : Status(n) \in {"completed", "skipped"}
            /\ snapshot.status = "suspended" =>
                 \A n \in DOMAIN dag : Status(n) \notin {"pending", "running"})

\* the suspension scenario ended suspended: c was suspended when b
\* completed, and d, still pending at finalization, was suspended by it
C34_Witness ==
    /\ spec = SuspensionSpec
    /\ ~resumed
    /\ snapshot.status = "suspended"
    /\ Status("b") = "completed"
    /\ Status("c") = "suspended"
    /\ Status("d") = "suspended"
    /\ snapshot.data["d"].finished

\* C35: the DAG of a resumed run is the deps and type of the entries of the
\* snapshot (those of the snapshot resumed from), whatever deps the spec
\* passed declares, and the run goes by it: a loop pass that is not stopped
\* calls the run fn of exactly the pending nodes whose recorded deps are
\* all completed, a node without a recorded input is called with what the
\* recorded deps contribute by their recorded types, and a node is skipped
\* or suspended by a step that does not finalize only when one of its
\* recorded deps completes in that step.
C35_ResumeFollowsSnapshotDeps ==
    /\ []((resumed /\ handle = "run") =>
            /\ dag = extractDag(given.data)
            /\ dag = extractDag(snapshot.data))
    /\ [][ (resumed /\ handle = "run" /\ ~NewHandle) =>
             \A n \in DOMAIN snapshot.data :
               LET deps == snapshot.data[n].deps
               IN  /\ (loops' # loops /\ ~aborted) =>
                        (Invokes(n) <=>
                           /\ Status(n) = "pending"
                           /\ \A d \in Range(deps) : Status(d) = "completed")
                   /\ (Invokes(n) /\ snapshot.data[n].input = << >>) =>
                        received'[n][1].data =
                          Flatten([ i \in 1..Len(deps) |->
                                      IF snapshot.data[deps[i]].type = "work"
                                      THEN << IF snapshot.data[deps[i]].output # << >>
                                              THEN snapshot.data[deps[i]].output[1]
                                              ELSE undefined >>
                                      ELSE IF snapshot.data[deps[i]].input # << >>
                                      THEN snapshot.data[deps[i]].input[1] ELSE << >> ])
                   /\ (~Finalizes /\ snapshot'.data[n].status # Status(n)
                         /\ snapshot'.data[n].status \in {"skipped", "suspended"}) =>
                        \E d \in Range(deps) :
                          Status(d) = "running" /\ snapshot'.data[d].status = "completed" ]_vars

\* the diamond was resumed with a spec that declares every node without
\* deps: b and c ran only once a had completed, and d, whose recorded deps
\* are c and b, is running with their outputs in that order
C35_Witness ==
    /\ resumed
    /\ handle = "run"
    /\ dag = extractDag(DiamondSpec)
    /\ \A n \in DOMAIN spec : spec[n].deps = << >>
    /\ given.data["a"].status = "errored"
    /\ snapshot.data["d"].deps = << "c", "b" >>
    /\ Status("d") = "running"
    /\ received["d"] = << [data |-> << "c", "b" >>, state |-> << >>] >>

\* n is blocked: a node it depends on, directly or transitively, is
\* errored, skipped or suspended
Blocked(n) == \E d \in AllDeps(n) : Status(d) \in {"errored", "skipped", "suspended"}

\* C36: on a handle that was not stopped, a loop pass makes every pending
\* node whose deps are all completed running, whichever nodes have errored
\* by then, so the run never finalizes while there is such a node; and the
\* finalizing step finds every node dispatched on the handle completed or
\* errored with its promise chain settled, and every other node completed
\* before the handle was made, skipped or suspended by a handler, or
\* pending and blocked by an errored, skipped or suspended node.  When
\* every dispatched action settles, a pending node whose deps are all
\* completed (none of them a branching node about to be errored for its
\* selection) while a call of start() is waiting is eventually dispatched,
\* skipped or suspended, unless stop() is called.
C36_FailureIsLocal ==
    [][ (handle = "run" /\ ~aborted /\ loops' # loops) =>
          /\ \A n \in DOMAIN dag :
               (Status(n) = "pending" /\ \A d \in Range(dag[n].deps) : Status(d) = "completed")
               => (~Finalizes /\ snapshot'.data[n].status = "running" /\ n \in dispatched')
          /\ Finalizes =>
               \A n \in DOMAIN dag :
                 IF n \in dispatched
                 THEN Status(n) \in {"completed", "errored"} /\ chain[n] = "settled"
                 ELSE \/ Status(n) \in {"skipped", "suspended"}
                      \/ Status(n) = "completed" /\ resumed
                      \/ Status(n) = "pending" /\ Blocked(n) ]_vars
    /\ \A n \in Range(Keys) :
         (/\ handle = "run" /\ ~aborted /\ Waiting
          /\ n \in DOMAIN dag
          /\ Status(n) = "pending"
          /\ \A d \in Range(dag[n].deps) : Status(d) = "completed" /\ chain[d] # "rejected")
         ~> (aborted \/ (n \in DOMAIN dag /\ Status(n) # "pending"))

\* in the diamond b threw and c went on to complete although b had errored;
\* the run ended errored with d, which depends on b, still pending
C36_Witness ==
    /\ handle = "run"
    /\ ~aborted
    /\ ~resumed
    /\ dag = extractDag(DiamondSpec)
    /\ snapshot.status = "errored"
    /\ Status("a") = "completed"
    /\ Status("b") = "errored"
    /\ Status("c") = "completed"
    /\ snapshot.data["c"].output = << "c" >>
    /\ Status("d") = "pending"

\* the step is a loop pass that calls the run fn of node n
Dispatches(n) == loops' # loops /\ ~noMoreWork /\ n \in readyToRunNodes

Unselected(k) ==
    \E b \in Range(dag[k].deps) :
       /\ dag[b].type = "branching"
       /\ Status(b) = "completed"
       /\ snapshot.data[b].selected # k
       /\ snapshot.data[b].selected \in getDependents(b, dag) \cup {NONE}

\* C38: a direct dependent that a completed branching node did not select,
\* once skipped, is skipped after every step, also one in which a
\* suspension node it depends on completes and the one in which
\* resumeTopology returns a new handle; and no loop pass, of the run or of
\* a run resumed from its snapshot, calls its run fn.
C38_UnselectedNeverRuns ==
    [][ \A k \in DOMAIN dag :
          Unselected(k) =>
            /\ Status(k) = "skipped" => snapshot'.data[k].status = "skipped"
            /\ handle = "run" => ~Dispatches(k) ]_vars

\* the selector of branching node b returned a name that is not one of its
\* direct dependents
BadSelection(b) ==
    /\ dag[b].type = "branching"
    /\ snapshot.data[b].selected \notin getDependents(b, dag) \cup {NONE, ""}

\* C39: a branching node whose selector returned a name that is not a
\* direct dependent is in no state completed, and no loop pass calls the
\* run fn of a node that depends directly on such a node.
C39_BadBranchNeverCompleted ==
    /\ [](handle = "run" =>
            \A b \in DOMAIN dag : BadSelection(b) => Status(b) # "completed")
    /\ [][ handle = "run" =>
             \A k \in DOMAIN dag :
               Dispatches(k) => \A b \in Range(dag[k].deps) : ~BadSelection(b) ]_vars

\* C40: in every snapshot of a run with status completed, each skipped node
\* is one that a completed branching node it depends on directly did not
\* select, or depends, directly or transitively, on such a node; so a run
\* in which stop() was called never ends completed with nodes skipped that
\* no branching decision left out.
C40_CompletedLeavesNoWork ==
    (handle = "run" /\ snapshot.status = "completed") =>
        \A k \in DOMAIN dag :
          Status(k) = "skipped" => (SkippedByBranching(k) \/ DependsOnSkipped(k))

============================================================================
